---- MODULE Spec2Model ----
(***************************************************************************)
(* Bake & Taste: the order lifecycle of the marketplace.                   *)
(*                                                                         *)
(* The store (tables profiles, bakeries, cakes, orders with their CHECK    *)
(* constraints, foreign keys and row-level-security policies) and the      *)
(* pages that write to it: OrderCake (fetchCake, the order form,           *)
(* handleSubmitOrder), SellerOrders (updateOrderStatus) and SellerCakes    *)
(* (handleSave, handleDelete, toggleAvailability).                         *)
(*                                                                         *)
(* Money is counted in cents: DECIMAL(10,2) holds an integer number of     *)
(* cents, and price * quantity of such values is again a number of cents.  *)
(***************************************************************************)
EXTENDS Integers, FiniteSets, Sequences, TLC

VARIABLES
    users,            \* table auth.users: set of rows
    profiles,         \* table public.profiles: set of rows
    bakeries,         \* table public.bakeries: set of rows
    cakes,            \* table public.cakes: id -> row
    orders,           \* table public.orders: id -> row
    nextCakeId,       \* ids handed out by gen_random_uuid() are never reused
    nextOrderId,
    user,             \* OrderCake browser: supabase.auth.getUser()
    cake,             \* OrderCake state: the cake loaded by fetchCake, or NULL
    quantity,         \* OrderCake form state
    deliveryType,
    deliveryAddress,
    invalid,          \* OrderCake form: the field the browser's constraint
                      \* validation reported on the last submit attempt, or ""
    uid,              \* seller-pages browser: auth.uid() of its requests
    toast,            \* title of the last toast shown
    browseCakes,      \* BrowseCakes state `cakes`: ids of the listed rows
    featuredCakes,    \* Index state `featuredCakes`: ids of the listed rows
    customerOrders,   \* CustomerOrders state `orders`: ids of the listed rows, in order
    sellerOrders,     \* SellerOrders state `orders`: ids of the listed rows, in order
    dashboard,        \* SellerDashboard states `loading`, `bakery` and `stats`,
                      \* one record per open dashboard
    formData,         \* SellerCakes dialog: formData.allergens, a text (the
                      \* other fields are the arguments of handleSave)
    navbar            \* Navbar: the auth client's session, the states `user`
                      \* and `userRole`, and the profile fetches in flight

vars == <<users, profiles, bakeries, cakes, orders, nextCakeId, nextOrderId,
          user, cake, quantity, deliveryType, deliveryAddress, invalid, uid, formData, navbar, toast,
          browseCakes, featuredCakes, customerOrders, sellerOrders, dashboard>>

\* the page states other than the OrderCake form
lists == <<browseCakes, featuredCakes, customerOrders, sellerOrders, dashboard>>

store == <<users, profiles, bakeries, cakes, orders, nextCakeId, nextOrderId>>

NULL == "null"
\* useState<Cake | null>(null)
NoCake == [id |-> 0, price |-> 0, bakery_id |-> NULL]
\* the error result of .single() / the null result of .maybeSingle()
NoRow == [id |-> NULL]
\* the error result of .maybeSingle() when several rows match
ErrRow == [id |-> "error"]
\* parseInt gives NaN or an integer: <<>> or <<n>>
NaN == <<>>

(***************************************************************************)
(* Bounds and input sets                                                   *)
(***************************************************************************)
\* how many cake ids / order ids are ever handed out
MaxCakes == 1
MaxOrders == 1
\* how many bakery rows are ever inserted
MaxBakeries == 4
\* how many dashboards the seller has open
Dashboards == 2
\* how many characters are typed into the allergens input
MaxLen == 4
\* preparation_time_hours as the cake dialog opens with it
DefaultPrepTime == 24

\* prices a seller enters, in cents
Prices == {2500, 3000}
\* what the price and prep_time inputs of the cake dialog may hold
PriceTyped == {NaN, <<-500>>, <<0>>, <<2500>>}
PrepTyped == {NaN, <<-1>>, <<DefaultPrepTime>>}
\* what reaches onChange of the quantity input: parseInt of the field text
QuantityTyped == {NaN, <<-1>>, <<0>>, <<1>>, <<2>>}
\* what the delivery-address input can hold
AddressTyped == {"", "12 Baker St"}

UserIds == {"uc1", "uc2", "us1", "us2"}

(***************************************************************************)
(* Schema: CHECK constraints of table orders                               *)
(***************************************************************************)
DeliveryTypeCheck == {"pickup", "delivery"}
StatusCheck == {"pending", "confirmed", "preparing", "ready", "completed", "cancelled"}
PaymentStatusCheck == {"pending", "paid", "failed", "refunded"}

\* the options of the status Select of SellerOrders
StatusOptions == {"pending", "confirmed", "in_progress", "ready", "completed", "cancelled"}
\* the options of the delivery-type Select of OrderCake, and its initial ""
DeliveryTypeOptions == {"pickup", "delivery"}

(***************************************************************************)
(* Row-level-security policies                                             *)
(***************************************************************************)
\* EXISTS (SELECT 1 FROM bakeries b JOIN profiles p ON b.seller_id = p.id
\*         WHERE b.id = <bakery_id> AND p.user_id = auth.uid() AND p.role = 'seller')
SellerOfBakery(authUid, bakery_id) ==
    \E b \in bakeries : \E p \in profiles :
        /\ b.seller_id = p.id
        /\ b.id = bakery_id
        /\ p.user_id = authUid
        /\ p.role = "seller"

\* (variant: the policy without the join on the order's bakery)
SellersCanUpdateOrderStatus_anySeller(authUid, row) ==
    \E p \in profiles : p.user_id = authUid /\ p.role = "seller"

\* policy "Sellers can update order status" ON orders FOR UPDATE USING (...)
SellersCanUpdateOrderStatus(authUid, row) == SellerOfBakery(authUid, row.bakery_id)

\* policy "Sellers can manage their cakes" ON cakes FOR ALL USING (...)
\* (variant: any seller may manage any cake)
SellersCanManageTheirCakes_anySeller(authUid, row) ==
    \E p \in profiles : p.user_id = authUid /\ p.role = "seller"

SellersCanManageTheirCakes(authUid, row) == SellerOfBakery(authUid, row.bakery_id)

\* policies "Anyone can view available cakes" / "Sellers can view all their cakes"
CanViewCake(authUid, row) ==
    \/ row.available = TRUE
    \/ SellerOfBakery(authUid, row.bakery_id)

\* policy "Customers can create orders" ON orders FOR INSERT WITH CHECK (...)
CustomersCanCreateOrders(authUid, row) ==
    \E p \in profiles : p.id = row.customer_id /\ p.user_id = authUid

(***************************************************************************)
(* Queries                                                                 *)
(***************************************************************************)
\* from('profiles').select('id').eq('user_id', user.id).single()
\* (policy "Users can view their own profile"); NULL stands for the error
ProfileOf(authUid) ==
    LET rows == {p \in profiles : p.user_id = authUid}
    IN IF Cardinality(rows) = 1 THEN CHOOSE p \in rows : TRUE ELSE NoRow

\* from('bakeries').select('id').eq('seller_id', profile.id).maybeSingle()
BakeryOf(profile_id) ==
    LET rows == {b \in bakeries : b.seller_id = profile_id}
    IN IF rows = {} THEN NoRow
       ELSE IF Cardinality(rows) = 1 THEN CHOOSE b \in rows : TRUE
       ELSE ErrRow

(***************************************************************************)
(* Initial state: two customers and two sellers are signed up, each seller *)
(* has set up a bakery; the catalog is empty or the first bakery already   *)
(* offers a cake; no order yet.  One principal drives the OrderCake page   *)
(* (or nobody is signed in there), another the seller pages.               *)
(***************************************************************************)
\* the accounts every specification starts with: auth.users rows with the
\* metadata given at signup (NULL: not given) and the profiles provisioned
\* for them
InitUsers ==
    { [id |-> "uc1", role |-> NULL, email |-> "uc1@mail", display_name |-> NULL],
      [id |-> "uc2", role |-> "customer", email |-> "uc2@mail", display_name |-> "Cy"],
      [id |-> "us1", role |-> "seller", email |-> "us1@mail", display_name |-> "Sam"],
      [id |-> "us2", role |-> "seller", email |-> "us2@mail", display_name |-> NULL] }
InitProfiles ==
    { [id |-> "c1", user_id |-> "uc1", role |-> "customer",
       email |-> "uc1@mail", display_name |-> "uc1@mail"],
      [id |-> "c2", user_id |-> "uc2", role |-> "customer",
       email |-> "uc2@mail", display_name |-> "Cy"],
      [id |-> "s1", user_id |-> "us1", role |-> "seller",
       email |-> "us1@mail", display_name |-> "Sam"],
      [id |-> "s2", user_id |-> "us2", role |-> "seller",
       email |-> "us2@mail", display_name |-> "us2@mail"] }
InitBakeries ==
    { [id |-> "b1", seller_id |-> "s1", name |-> "Sweet Treats"],
      [id |-> "b2", seller_id |-> "s2", name |-> "Sweet Treats"] }
\* a cake as a seller's first save stores it
InitCake(bakery_id) ==
    [price |-> 2500, bakery_id |-> bakery_id, available |-> TRUE,
     preparation_time_hours |-> DefaultPrepTime, allergens |-> <<>>]
\* no page but OrderCake has fetched anything yet
InitLists ==
    /\ browseCakes = {}
    /\ featuredCakes = {}
    /\ customerOrders = <<>>
    /\ sellerOrders = <<>>
    /\ dashboard = [d \in 1..Dashboards |->
                      [loading |-> TRUE, bakery |-> NoRow,
                       stats |-> [totalCakes |-> 0, totalOrders |-> 0,
                                  pendingOrders |-> 0, totalRevenue |-> 0]]]
    /\ formData = <<>>
    /\ navbar = [user |-> NULL, auth |-> NULL, getSession |-> FALSE,
                 session |-> NULL, userRole |-> NULL, fetches |-> {}]

Init ==
    /\ users = InitUsers
    /\ profiles = InitProfiles
    /\ bakeries = InitBakeries
    /\ cakes \in { <<>>, <<InitCake("b1")>> }
    /\ InitLists
    /\ orders = <<>>
    /\ nextCakeId = Len(cakes) + 1
    /\ nextOrderId = 1
    /\ user \in {NULL, "uc1"}
    /\ cake = NoCake
    /\ quantity = 1
    /\ deliveryType = ""
    /\ deliveryAddress = ""
    /\ invalid = ""
    /\ uid \in UserIds
    /\ toast = ""

(***************************************************************************)
(* OrderCake page                                                          *)
(***************************************************************************)
\* a freshly mounted OrderCake component: the useState initial values
FreshForm ==
    /\ quantity' = 1
    /\ deliveryType' = ""
    /\ deliveryAddress' = ""
    /\ invalid' = ""

\* (variant: the query has no .eq('available', true))
fetchCake_anyAvailability(cakeId) ==
    /\ FreshForm
    /\ IF /\ cakeId \in DOMAIN cakes
          /\ CanViewCake(user, cakes[cakeId])
       THEN /\ cake' = [id |-> cakeId, price |-> cakes[cakeId].price,
                        bakery_id |-> cakes[cakeId].bakery_id]
            /\ UNCHANGED toast
       ELSE /\ cake' = NoCake
            /\ toast' = "Cake not found"
    /\ UNCHANGED <<store, user, uid, formData, navbar, lists>>

\* the page is opened for /order/:cakeId and fetchCake runs:
\* from('cakes').select(...).eq('id', cakeId).eq('available', true).single()
fetchCake(cakeId) ==
    /\ FreshForm
    /\ IF /\ cakeId \in DOMAIN cakes
          /\ CanViewCake(user, cakes[cakeId])
          /\ cakes[cakeId].available = TRUE
       THEN /\ cake' = [id |-> cakeId, price |-> cakes[cakeId].price,
                        bakery_id |-> cakes[cakeId].bakery_id]
            /\ UNCHANGED toast
       ELSE \* toast "Cake not found", navigate('/browse')
            /\ cake' = NoCake
            /\ toast' = "Cake not found"
    /\ UNCHANGED <<store, user, uid, formData, navbar, lists>>

\* onChange of the quantity input: setQuantity(parseInt(e.target.value) || 1)
ParseIntOr1(parsed) == IF parsed = NaN \/ parsed[1] = 0 THEN 1 ELSE parsed[1]

setQuantity(parsed) ==
    /\ cake # NoCake
    /\ quantity' = ParseIntOr1(parsed)
    /\ invalid' = ""
    /\ UNCHANGED <<store, user, cake, deliveryType, deliveryAddress, uid, formData, navbar, toast, lists>>

\* onValueChange of the delivery-type Select
setDeliveryType(value) ==
    /\ cake # NoCake
    /\ deliveryType' = value
    /\ invalid' = ""
    /\ UNCHANGED <<store, user, cake, quantity, deliveryAddress, uid, formData, navbar, toast, lists>>

\* onChange of the delivery-address input, rendered when deliveryType === 'delivery'
setDeliveryAddress(value) ==
    /\ cake # NoCake
    /\ deliveryType = "delivery"
    /\ deliveryAddress' = value
    /\ invalid' = ""
    /\ UNCHANGED <<store, user, cake, quantity, deliveryType, uid, formData, navbar, toast, lists>>

\* (variant: the address input without `required`)
FirstInvalid_noRequired ==
    IF quantity < 1 THEN "quantity" ELSE ""

\* (variant: the quantity input without `min="1"`)
FirstInvalid_noMin ==
    IF deliveryType = "delivery" /\ deliveryAddress = "" THEN "deliveryAddress" ELSE ""

\* The browser's constraint validation of the form's native inputs:
\* <Input id="quantity" type="number" min="1" required> and, when rendered,
\* <Input id="deliveryAddress" required>.  "" when every input is valid,
\* else the first invalid input.
FirstInvalid ==
    IF quantity < 1 THEN "quantity"
    ELSE IF deliveryType = "delivery" /\ deliveryAddress = "" THEN "deliveryAddress"
    ELSE ""

\* supabase.from('orders').insert(row): policy, foreign keys and CHECKs
InsertOrderOk(authUid, row) ==
    /\ CustomersCanCreateOrders(authUid, row)
    /\ row.cake_id \in DOMAIN cakes
    /\ \E b \in bakeries : b.id = row.bakery_id
    /\ row.delivery_type \in DeliveryTypeCheck
    /\ row.status \in StatusCheck
    /\ row.payment_status \in PaymentStatusCheck

\* (variant: the order is inserted as already confirmed)
OrderRow_confirmed(profile) ==
    [ quantity |-> quantity,
      bakery_id |-> cake.bakery_id,
      customer_id |-> profile.id,
      cake_id |-> cake.id,
      delivery_type |-> deliveryType,
      status |-> "confirmed",
      payment_status |-> "pending",
      total_amount |-> cake.price * quantity,
      delivery_address |-> IF deliveryType = "delivery" THEN deliveryAddress ELSE NULL ]

\* (variant: delivery_address is deliveryAddress || null, whatever the type)
OrderRow_addressOrNull(profile) ==
    [ quantity |-> quantity,
      bakery_id |-> cake.bakery_id,
      customer_id |-> profile.id,
      cake_id |-> cake.id,
      delivery_type |-> deliveryType,
      status |-> "pending",
      payment_status |-> "pending",
      total_amount |-> cake.price * quantity,
      delivery_address |-> IF deliveryAddress # "" THEN deliveryAddress ELSE NULL ]

\* the row handleSubmitOrder inserts
OrderRow(profile) ==
    [ quantity |-> quantity,
      bakery_id |-> cake.bakery_id,
      customer_id |-> profile.id,
      cake_id |-> cake.id,
      delivery_type |-> deliveryType,
      status |-> "pending",
      payment_status |-> "pending",
      total_amount |-> cake.price * quantity,
      delivery_address |-> IF deliveryType = "delivery" THEN deliveryAddress ELSE NULL ]

handleSubmitOrder ==
    /\ cake # NoCake
    /\ invalid' = ""
    /\ IF user = NULL
       THEN \* toast "Authentication required", navigate('/auth')
            /\ toast' = "Authentication required"
            /\ cake' = NoCake
            /\ quantity' = 1 /\ deliveryType' = "" /\ deliveryAddress' = ""
            /\ UNCHANGED store
       ELSE LET profile == ProfileOf(user) IN
            IF profile # NoRow /\ InsertOrderOk(user, OrderRow(profile))
            THEN \* toast "Order placed successfully!", navigate('/orders')
                 /\ nextOrderId <= MaxOrders
                 /\ orders' = orders @@ (nextOrderId :>
                        (OrderRow(profile) @@ [created_at |-> nextOrderId]))
                 /\ nextOrderId' = nextOrderId + 1
                 /\ toast' = "Order placed successfully!"
                 /\ cake' = NoCake
                 /\ quantity' = 1 /\ deliveryType' = "" /\ deliveryAddress' = ""
                 /\ UNCHANGED <<users, profiles, bakeries, cakes, nextCakeId>>
            ELSE /\ toast' = "Error placing order"
                 /\ UNCHANGED <<store, cake, quantity, deliveryType, deliveryAddress>>
    /\ UNCHANGED <<user, uid, formData, navbar, lists>>

\* the submit event of <form onSubmit={handleSubmitOrder}>: the browser
\* validates the inputs first and calls the handler only when all are valid
SubmitForm ==
    /\ cake # NoCake
    /\ IF FirstInvalid # ""
       THEN /\ invalid' = FirstInvalid
            /\ UNCHANGED <<store, user, cake, quantity, deliveryType,
                           deliveryAddress, uid, formData, navbar, toast, lists>>
       ELSE handleSubmitOrder

(***************************************************************************)
(* SellerOrders page                                                       *)
(***************************************************************************)
\* policies "Customers can view their orders" and "Sellers can view orders
\* for their cakes": the rows of orders a SELECT by authUid sees
CustomersCanViewTheirOrders(authUid, row) ==
    \E p \in profiles : p.id = row.customer_id /\ p.user_id = authUid
SellersCanViewOrders(authUid, row) ==
    \E b \in bakeries : \E p \in profiles :
        /\ b.id = row.bakery_id
        /\ p.id = b.seller_id
        /\ p.user_id = authUid
CanViewOrder(authUid, row) ==
    CustomersCanViewTheirOrders(authUid, row) \/ SellersCanViewOrders(authUid, row)

\* (variant: oldest first)
OrderByCreatedAtDesc_ascending(ids) ==
    [i \in 1..Cardinality(ids) |->
        CHOOSE k \in ids :
            Cardinality({j \in ids : orders'[j].created_at < orders'[k].created_at})
               = i - 1]

\* .order('created_at', { ascending: false }) over the rows with these ids,
\* of the store as the step leaves it: the row at place i is the one with
\* i - 1 later rows
OrderByCreatedAtDesc(ids) ==
    [i \in 1..Cardinality(ids) |->
        CHOOSE k \in ids :
            Cardinality({j \in ids : orders'[j].created_at > orders'[k].created_at})
               = i - 1]

\* SellerOrders.fetchOrders: it reads the store as the step leaves it and
\* shows a toast of its own only when a query fails; shown is the toast
\* the caller has shown before
fetchOrders(shown) ==
    LET profile == ProfileOf(uid)
        b       == BakeryOf(profile.id)
    IN IF profile = NoRow \/ b = ErrRow
       THEN /\ toast' = "Error loading orders"
            /\ UNCHANGED sellerOrders
       ELSE /\ toast' = shown
            /\ IF b = NoRow
               THEN UNCHANGED sellerOrders
               ELSE sellerOrders' = OrderByCreatedAtDesc(
                        {k \in DOMAIN orders' : /\ CanViewOrder(uid, orders'[k])
                                                /\ orders'[k].bakery_id = b.id})

\* the SellerOrders page is opened and fetchOrders runs
SellerOrders_fetchOrders ==
    /\ UNCHANGED store
    /\ fetchOrders(toast)
    /\ UNCHANGED <<user, cake, quantity, deliveryType, deliveryAddress, invalid, uid, formData, navbar,
                   browseCakes, featuredCakes, customerOrders, dashboard>>

\* (variant: the update also recomputes the total from the cake's present price)
updateOrderStatus_recompute(orderId, newStatus) ==
    LET hit == /\ orderId \in DOMAIN orders
               /\ SellersCanUpdateOrderStatus(uid, orders[orderId])
    IN /\ IF hit /\ newStatus \notin StatusCheck
          THEN /\ toast' = "Error updating order"
               /\ UNCHANGED <<orders, sellerOrders>>
          ELSE /\ orders' = IF hit
                            THEN [orders EXCEPT
                                    ![orderId].status = newStatus,
                                    ![orderId].total_amount =
                                        cakes[orders[orderId].cake_id].price
                                           * orders[orderId].quantity]
                            ELSE orders
               /\ fetchOrders("Order status updated")
       /\ UNCHANGED <<users, profiles, bakeries, cakes, nextCakeId, nextOrderId,
                      user, cake, quantity, deliveryType, deliveryAddress, invalid, uid, formData, navbar,
                      browseCakes, featuredCakes, customerOrders, dashboard>>

\* (variant: a completed order is marked as paid)
updateOrderStatus_paid(orderId, newStatus) ==
    LET hit == /\ orderId \in DOMAIN orders
               /\ SellersCanUpdateOrderStatus(uid, orders[orderId])
    IN /\ IF hit /\ newStatus \notin StatusCheck
          THEN /\ toast' = "Error updating order"
               /\ UNCHANGED <<orders, sellerOrders>>
          ELSE /\ orders' = IF hit
                            THEN [orders EXCEPT
                                    ![orderId].status = newStatus,
                                    ![orderId].payment_status = "paid"]
                            ELSE orders
               /\ fetchOrders("Order status updated")
       /\ UNCHANGED <<users, profiles, bakeries, cakes, nextCakeId, nextOrderId,
                      user, cake, quantity, deliveryType, deliveryAddress, invalid, uid, formData, navbar,
                      browseCakes, featuredCakes, customerOrders, dashboard>>

\* from('orders').update({ status: newStatus }).eq('id', orderId), issued with
\* the session of uid.  Rows the UPDATE policy hides are not updated and give
\* no error; a row that is updated must satisfy the CHECK on status.
updateOrderStatus(orderId, newStatus) ==
    LET hit == /\ orderId \in DOMAIN orders
               /\ SellersCanUpdateOrderStatus(uid, orders[orderId])
    IN /\ IF hit /\ newStatus \notin StatusCheck
          THEN \* error: violates check constraint "orders_status_check"
               /\ toast' = "Error updating order"
               /\ UNCHANGED <<orders, sellerOrders>>
          ELSE /\ orders' = IF hit
                            THEN [orders EXCEPT ![orderId].status = newStatus]
                            ELSE orders
               /\ fetchOrders("Order status updated")
       /\ UNCHANGED <<users, profiles, bakeries, cakes, nextCakeId, nextOrderId,
                      user, cake, quantity, deliveryType, deliveryAddress, invalid, uid, formData, navbar,
                      browseCakes, featuredCakes, customerOrders, dashboard>>

(***************************************************************************)
(* SellerCakes page                                                        *)
(***************************************************************************)
\* bakeryId as set by fetchBakeryAndCakes: the bakery of the profile of uid
bakeryId ==
    LET profile == ProfileOf(uid)
    IN IF profile = NoRow THEN NULL ELSE BakeryOf(profile.id).id

\* (variant: only pending orders go with the cake)
OrdersWithoutCake_pendingOnly(cakeId) ==
    LET keep == {o \in DOMAIN orders :
                    orders[o].cake_id # cakeId \/ orders[o].status # "pending"}
    IN [o \in keep |-> orders[o]]

\* ON DELETE CASCADE of orders.cake_id
OrdersWithoutCake(cakeId) ==
    LET keep == {o \in DOMAIN orders : orders[o].cake_id # cakeId}
    IN [o \in keep |-> orders[o]]

\* A text is a sequence of characters; Chars are the characters typed
\* into the allergens input: the comma, the blank and a letter.
Chars == {",", " ", "n"}

\* text.split(','): the pieces between the commas, at least one
RECURSIVE split(_)
split(text) ==
    IF \A i \in DOMAIN text : text[i] # ","
    THEN <<text>>
    ELSE LET i == CHOOSE c \in DOMAIN text :
                     text[c] = "," /\ \A b \in 1..(c - 1) : text[b] # ","
         IN <<SubSeq(text, 1, i - 1)>> \o split(SubSeq(text, i + 1, Len(text)))

\* item.trim(): item without the blanks at its start and at its end
trim(item) ==
    LET inked == {i \in DOMAIN item : item[i] # " "}
    IN IF inked = {} THEN <<>>
       ELSE SubSeq(item, CHOOSE i \in inked : \A j \in inked : i <= j,
                         CHOOSE i \in inked : \A j \in inked : j <= i)

\* (variant: the items are not trimmed)
allergensArray_untrimmed(text) ==
    LET items == split(text)
        kept(item) == Len(item) > 0
    IN SelectSeq(items, kept)

\* allergensArray of handleSave:
\* text.split(',').map(item => item.trim()).filter(item => item.length > 0)
allergensArray(text) ==
    LET items == split(text)
        trimmed == [i \in DOMAIN items |-> trim(items[i])]
        kept(item) == Len(item) > 0
    IN SelectSeq(trimmed, kept)

\* Array.prototype.join: the elements of list with separator between them
RECURSIVE joinWith(_, _)
joinWith(list, separator) ==
    IF list = <<>> THEN <<>>
    ELSE IF Len(list) = 1 THEN list[1]
    ELSE list[1] \o separator \o joinWith(Tail(list), separator)

\* (variant: the labels are joined with a blank)
join_blank(list) == joinWith(list, <<" ">>)

\* cake.allergens?.join(', ')
join(list) == joinWith(list, <<",", " ">>)

\* the allergens input: onChange sets formData.allergens to the text typed
setAllergens(text) ==
    /\ formData' = text
    /\ UNCHANGED <<store, user, cake, quantity, deliveryType, deliveryAddress,
                   invalid, uid, navbar, toast, lists>>

\* handleEdit(cake) with a row of the page's list, which the page fetches
\* again after each of its writes: allergens: cake.allergens?.join(', ')
handleEdit(cakeId) ==
    /\ cakeId \in DOMAIN cakes
    /\ CanViewCake(uid, cakes[cakeId])
    /\ cakes[cakeId].bakery_id = bakeryId
    /\ formData' = join(cakes[cakeId].allergens)
    /\ UNCHANGED <<store, user, cake, quantity, deliveryType, deliveryAddress,
                   invalid, uid, navbar, toast, lists>>

\* cakeData of handleSave
cakeData(price, preparation_time_hours, available) ==
    [price |-> price, bakery_id |-> bakeryId, available |-> available,
     preparation_time_hours |-> preparation_time_hours,
     allergens |-> allergensArray(formData)]

\* handleSave with the dialog's parsed price, preparation time and
\* availability; editingCake is a cake id (update) or 0 (insert)
handleSave(editingCake, price, preparation_time_hours, available) ==
    /\ bakeryId # NULL
    /\ IF editingCake # 0
       THEN \* from('cakes').update(cakeData).eq('id', editingCake.id)
            /\ cakes' = IF /\ editingCake \in DOMAIN cakes
                           /\ SellersCanManageTheirCakes(uid, cakes[editingCake])
                        THEN [cakes EXCEPT ![editingCake] =
                                 cakeData(price, preparation_time_hours, available)]
                        ELSE cakes
            /\ toast' = "Cake updated successfully!"
            /\ formData' = <<>>
            /\ UNCHANGED nextCakeId
       ELSE \* from('cakes').insert(cakeData)
            IF SellersCanManageTheirCakes(uid,
                    cakeData(price, preparation_time_hours, available))
            THEN /\ nextCakeId <= MaxCakes
                 /\ cakes' = cakes @@ (nextCakeId :>
                        cakeData(price, preparation_time_hours, available))
                 /\ nextCakeId' = nextCakeId + 1
                 /\ toast' = "Cake created successfully!"
                 /\ formData' = <<>>
            ELSE \* error: new row violates row-level security policy
                 /\ toast' = "Error saving cake"
                 /\ UNCHANGED <<cakes, nextCakeId, formData>>
    /\ UNCHANGED <<users, profiles, bakeries, orders, nextOrderId,
                   user, cake, quantity, deliveryType, deliveryAddress, invalid, uid,
                   navbar, lists>>

\* the first input of the cake dialog the browser reports at a submit:
\* price and prep_time are type="number" and required, neither has a min
CakeFormInvalid(priceTyped, prepTyped) ==
    IF priceTyped = NaN THEN "price"
    ELSE IF prepTyped = NaN THEN "prep_time"
    ELSE ""

\* the submit event of <form onSubmit={handleSave}> with the numbers the
\* price and prep_time inputs hold (NaN: no number)
SubmitCakeForm(editingCake, priceTyped, prepTyped, available) ==
    IF CakeFormInvalid(priceTyped, prepTyped) # ""
    THEN UNCHANGED vars
    ELSE handleSave(editingCake, priceTyped[1], prepTyped[1], available)

\* from('cakes').delete().eq('id', cakeId); rows the policy hides, or that
\* are gone, are not touched and give no error
handleDelete(cakeId) ==
    /\ IF /\ cakeId \in DOMAIN cakes
          /\ SellersCanManageTheirCakes(uid, cakes[cakeId])
       THEN /\ cakes' = [k \in DOMAIN cakes \ {cakeId} |-> cakes[k]]
            /\ orders' = OrdersWithoutCake(cakeId)
       ELSE UNCHANGED <<cakes, orders>>
    /\ toast' = "Cake deleted successfully!"
    /\ UNCHANGED <<users, profiles, bakeries, nextCakeId, nextOrderId,
                   user, cake, quantity, deliveryType, deliveryAddress, invalid, uid, formData, navbar, lists>>

\* (variant: the new value is the negation of the stored flag)
toggleAvailability_fromStore(cakeId, listedAvailable) ==
    /\ cakes' = IF /\ cakeId \in DOMAIN cakes
                   /\ SellersCanManageTheirCakes(uid, cakes[cakeId])
                THEN [cakes EXCEPT ![cakeId].available = ~cakes[cakeId].available]
                ELSE cakes
    /\ toast' = IF ~listedAvailable THEN "Cake made available"
                ELSE "Cake made unavailable"
    /\ UNCHANGED <<users, profiles, bakeries, orders, nextCakeId, nextOrderId,
                   user, cake, quantity, deliveryType, deliveryAddress, invalid, uid, formData, navbar, lists>>

\* from('cakes').update({ available: !cake.available }).eq('id', cake.id),
\* where cake is a row of the page's list, as it was when the list was fetched
toggleAvailability(cakeId, listedAvailable) ==
    /\ cakes' = IF /\ cakeId \in DOMAIN cakes
                   /\ SellersCanManageTheirCakes(uid, cakes[cakeId])
                THEN [cakes EXCEPT ![cakeId].available = ~listedAvailable]
                ELSE cakes
    /\ toast' = IF ~listedAvailable THEN "Cake made available"
                ELSE "Cake made unavailable"
    /\ UNCHANGED <<users, profiles, bakeries, orders, nextCakeId, nextOrderId,
                   user, cake, quantity, deliveryType, deliveryAddress, invalid, uid, formData, navbar, lists>>

(***************************************************************************)
(* Signup: the trigger on_auth_user_created                                *)
(***************************************************************************)
\* CREATE TYPE user_role AS ENUM ('customer', 'seller')
user_role == {"customer", "seller"}

\* COALESCE(value, fallback)
COALESCE(value, fallback) == IF value # NULL THEN value ELSE fallback

\* what a signup may supply: the id and email of the new auth.users row and
\* the role and display_name of its raw_user_meta_data (NULL: key absent)
NewUserIds == {"un1", "un2"}
Emails == {"ann@mail", "bob@mail", "cat@mail"}
MetaRoles == {NULL, "customer", "seller", "admin"}
MetaNames == {NULL, "Ann"}
\* the ids gen_random_uuid() hands out for profiles
NewProfileIds == {"n1", "n2"}

\* (variant: profiles.user_id is not UNIQUE)
profiles_user_id_key_dropped(row) == TRUE

\* user_id UUID NOT NULL UNIQUE: row may be added to profiles
profiles_user_id_key(row) == \A p \in profiles : p.user_id # row.user_id

\* (variant: every new profile is a customer)
handle_new_user_alwaysCustomer(new) ==
    LET free == NewProfileIds \ {p.id : p \in profiles}
    IN [ id |-> CHOOSE id \in free : TRUE,
         user_id |-> new.id,
         role |-> "customer",
         email |-> new.email,
         display_name |-> COALESCE(new.display_name, new.email) ]

\* the row handle_new_user inserts into profiles for the auth.users row new
handle_new_user(new) ==
    LET free == NewProfileIds \ {p.id : p \in profiles}
    IN [ id |-> CHOOSE id \in free : TRUE,
         user_id |-> new.id,
         role |-> COALESCE(new.role, "customer"),
         email |-> new.email,
         display_name |-> COALESCE(new.display_name, new.email) ]

\* INSERT INTO auth.users of the row new (its id and email, and the role
\* and display_name of its raw_user_meta_data), with the AFTER INSERT
\* trigger in the same transaction: an error of the trigger (the cast of
\* the role to user_role, the UNIQUE on profiles.user_id) undoes the insert
on_auth_user_created(id, email, role, display_name) ==
    LET new == [id |-> id, role |-> role, email |-> email,
                display_name |-> display_name]
    IN
    /\ \A u \in users : u.id # new.id /\ u.email # new.email
    /\ IF /\ new.role \in user_role \cup {NULL}
          /\ profiles_user_id_key([user_id |-> new.id])
       THEN /\ users' = users \cup {new}
            /\ profiles' = profiles \cup {handle_new_user(new)}
       ELSE UNCHANGED <<users, profiles>>
    /\ UNCHANGED <<bakeries, cakes, orders, nextCakeId, nextOrderId,
                   user, cake, quantity, deliveryType, deliveryAddress, invalid, uid, formData, navbar,
                   toast, lists>>

(***************************************************************************)
(* Requests on profiles that the policies admit from a signed-in client,   *)
(* sent with the session of uid; no page of the application sends them.    *)
(***************************************************************************)
\* policy "Users can insert their own profile" FOR INSERT WITH CHECK
UsersCanInsertTheirOwnProfile(authUid, row) == authUid = row.user_id

\* policy "Users can update their own profile" FOR UPDATE USING
UsersCanUpdateTheirOwnProfile(authUid, row) == authUid = row.user_id

\* from('profiles').insert({ user_id, role }): the row must pass the
\* policy, reference a row of auth.users and keep user_id unique
profiles_Insert(user_id, role) ==
    LET free == NewProfileIds \ {p.id : p \in profiles}
        u    == CHOOSE x \in users : x.id = user_id
        row  == [ id |-> CHOOSE id \in free : TRUE, user_id |-> user_id,
                  role |-> role, email |-> NULL, display_name |-> NULL ]
    IN /\ profiles' =
             IF /\ UsersCanInsertTheirOwnProfile(uid, [user_id |-> user_id])
                /\ \E x \in users : x.id = user_id
                /\ profiles_user_id_key([user_id |-> user_id])
                /\ free # {}
             THEN profiles \cup {row}
             ELSE profiles
       /\ UNCHANGED <<users, bakeries, cakes, orders, nextCakeId, nextOrderId,
                      user, cake, quantity, deliveryType, deliveryAddress, invalid, uid, formData, navbar,
                      toast, lists>>

\* from('profiles').update({ role }).eq('user_id', user_id): the rows the
\* policy shows are updated, whatever columns the request names
profiles_Update(user_id, role) ==
    /\ profiles' = { IF p.user_id = user_id /\ UsersCanUpdateTheirOwnProfile(uid, p)
                     THEN [p EXCEPT !.role = role] ELSE p : p \in profiles }
    /\ UNCHANGED <<users, bakeries, cakes, orders, nextCakeId, nextOrderId,
                   user, cake, quantity, deliveryType, deliveryAddress, invalid, uid, formData, navbar,
                   toast, lists>>

(***************************************************************************)
(* SellerDashboard page                                                    *)
(***************************************************************************)
\* (variant: any seller may manage any bakery)
SellersCanManageTheirBakeries_anySeller(authUid, row) ==
    \E p \in profiles : p.user_id = authUid /\ p.role = "seller"

\* policy "Sellers can manage their bakeries" ON bakeries FOR ALL USING (...)
SellersCanManageTheirBakeries(authUid, row) ==
    \E p \in profiles :
        /\ p.id = row.seller_id
        /\ p.user_id = authUid
        /\ p.role = "seller"

\* the ids gen_random_uuid() hands out, and what the name input may hold
BakeryIds == {"b1", "b2", "b3", "b4", "b5", "b6"}
BakeryNames == {"Sweet Treats", "Sugar Rush"}

\* data.reduce((sum, order) => sum + (order.total_amount || 0), 0) over the
\* orders with the ids given
RECURSIVE reduce(_)
reduce(ids) ==
    IF ids = {} THEN 0
    ELSE LET o == CHOOSE k \in ids : TRUE
         IN orders[o].total_amount + reduce(ids \ {o})

\* (variant: cancelled orders bring no revenue)
Stats_withoutCancelled(bakery_id) ==
    LET cakesResult  == {k \in DOMAIN cakes :
                            /\ cakes[k].bakery_id = bakery_id
                            /\ CanViewCake(uid, cakes[k])}
        ordersResult == {o \in DOMAIN orders :
                            /\ orders[o].bakery_id = bakery_id
                            /\ CanViewOrder(uid, orders[o])}
    IN [ totalCakes    |-> Cardinality(cakesResult),
         totalOrders   |-> Cardinality(ordersResult),
         pendingOrders |-> Cardinality({o \in ordersResult :
                                           orders[o].status = "pending"}),
         totalRevenue  |-> reduce({o \in ordersResult :
                                           orders[o].status # "cancelled"}) ]

\* the stats fetchBakeryAndStats computes for the bakery it has found, from
\* the cakes and the orders with that bakery_id which the caller may view
Stats(bakery_id) ==
    LET cakesResult  == {k \in DOMAIN cakes :
                            /\ cakes[k].bakery_id = bakery_id
                            /\ CanViewCake(uid, cakes[k])}
        ordersResult == {o \in DOMAIN orders :
                            /\ orders[o].bakery_id = bakery_id
                            /\ CanViewOrder(uid, orders[o])}
    IN [ totalCakes    |-> Cardinality(cakesResult),
         totalOrders   |-> Cardinality(ordersResult),
         pendingOrders |-> Cardinality({o \in ordersResult :
                                           orders[o].status = "pending"}),
         totalRevenue  |-> reduce(ordersResult) ]

\* fetchBakeryAndStats of dashboard d, reading the bakeries as the step
\* leaves them (its callers leave cakes and orders as they are); shown is
\* the toast the caller has shown before
fetchBakeryAndStats(d, shown) ==
    LET profile == ProfileOf(uid)
        rows    == {b \in bakeries' : b.seller_id = profile.id}
    IN IF profile = NoRow
       THEN /\ toast' = "Error loading dashboard"
            /\ dashboard' = [dashboard EXCEPT ![d].loading = FALSE]
       ELSE IF profile.role # "seller"
       THEN \* toast "Access denied", navigate('/'): the page is left
            /\ toast' = "Access denied"
            /\ UNCHANGED dashboard
       ELSE IF Cardinality(rows) > 1
       THEN \* maybeSingle(): error, several rows
            /\ toast' = "Error loading dashboard"
            /\ dashboard' = [dashboard EXCEPT ![d].loading = FALSE]
       ELSE /\ toast' = shown
            /\ dashboard' = [dashboard EXCEPT
                  ![d].loading = FALSE,
                  ![d].bakery = IF rows = {} THEN @ ELSE CHOOSE b \in rows : TRUE,
                  ![d].stats = IF rows = {} THEN @
                               ELSE Stats((CHOOSE b \in rows : TRUE).id)]

\* dashboard d is opened and fetchBakeryAndStats runs
SellerDashboard_fetchBakeryAndStats(d) ==
    /\ UNCHANGED store
    /\ fetchBakeryAndStats(d, toast)
    /\ UNCHANGED <<user, cake, quantity, deliveryType, deliveryAddress, invalid, uid, formData, navbar,
                   browseCakes, featuredCakes, customerOrders, sellerOrders>>

\* handleSaveBakery of dashboard d, whose form (shown once the page has
\* loaded) holds name
handleSaveBakery(d, name) ==
    LET profile == ProfileOf(uid)
        cached  == dashboard[d].bakery
        free    == BakeryIds \ {b.id : b \in bakeries}
        row     == [id |-> CHOOSE id \in free : TRUE, seller_id |-> profile.id,
                    name |-> name]
    IN /\ dashboard[d].loading = FALSE
       /\ IF profile = NoRow
          THEN UNCHANGED <<bakeries, dashboard, toast>>
          ELSE IF cached # NoRow
          THEN \* from('bakeries').update(formData).eq('id', bakery.id)
               /\ bakeries' = { IF b.id = cached.id /\ SellersCanManageTheirBakeries(uid, b)
                                THEN [b EXCEPT !.name = name] ELSE b : b \in bakeries }
               /\ fetchBakeryAndStats(d, "Bakery saved successfully!")
          ELSE \* from('bakeries').insert({ ...formData, seller_id: profile.id })
               IF SellersCanManageTheirBakeries(uid, row)
               THEN /\ Cardinality(bakeries) < MaxBakeries
                    /\ free # {}
                    /\ bakeries' = bakeries \cup {row}
                    /\ fetchBakeryAndStats(d, "Bakery saved successfully!")
               ELSE /\ toast' = "Error saving bakery"
                    /\ UNCHANGED <<bakeries, dashboard>>
       /\ UNCHANGED <<users, profiles, cakes, orders, nextCakeId, nextOrderId,
                      user, cake, quantity, deliveryType, deliveryAddress, invalid, uid, formData, navbar,
                      browseCakes, featuredCakes, customerOrders, sellerOrders>>

\* from('bakeries').insert({ name, seller_id }) and
\* from('bakeries').update({ name }).eq('id', id), sent with the session of
\* uid outside the dashboard: the policy decides
bakeries_Insert(seller_id, name) ==
    LET free == BakeryIds \ {b.id : b \in bakeries}
        row  == [id |-> CHOOSE id \in free : TRUE, seller_id |-> seller_id,
                 name |-> name]
    IN /\ Cardinality(bakeries) < MaxBakeries
       /\ free # {}
       /\ bakeries' = IF SellersCanManageTheirBakeries(uid, row)
                      THEN bakeries \cup {row} ELSE bakeries
       /\ UNCHANGED <<users, profiles, cakes, orders, nextCakeId, nextOrderId,
                      user, cake, quantity, deliveryType, deliveryAddress, invalid, uid, formData, navbar,
                      toast, lists>>

bakeries_Update(id, name) ==
    /\ bakeries' = { IF b.id = id /\ SellersCanManageTheirBakeries(uid, b)
                     THEN [b EXCEPT !.name = name] ELSE b : b \in bakeries }
    /\ UNCHANGED <<users, profiles, cakes, orders, nextCakeId, nextOrderId,
                   user, cake, quantity, deliveryType, deliveryAddress, invalid, uid, formData, navbar,
                   toast, lists>>

(***************************************************************************)
(* CustomerOrders page                                                     *)
(***************************************************************************)
\* CustomerOrders.fetchOrders, with the session of the customer's browser
CustomerOrders_fetchOrders ==
    /\ UNCHANGED store
    /\ IF user = NULL
       THEN UNCHANGED <<customerOrders, toast>>
       ELSE LET profile == ProfileOf(user) IN
            IF profile = NoRow
            THEN /\ toast' = "Error loading orders"
                 /\ UNCHANGED customerOrders
            ELSE /\ customerOrders' = OrderByCreatedAtDesc(
                        {k \in DOMAIN orders : /\ CanViewOrder(user, orders[k])
                                               /\ orders[k].customer_id = profile.id})
                 /\ UNCHANGED toast
    /\ UNCHANGED <<user, cake, quantity, deliveryType, deliveryAddress, invalid, uid, formData, navbar,
                   browseCakes, featuredCakes, sellerOrders, dashboard>>

(***************************************************************************)
(* BrowseCakes and Index pages                                             *)
(***************************************************************************)
\* the rows a SELECT on cakes with .eq('available', true) returns to authUid
AvailableCakes(authUid) ==
    {k \in DOMAIN cakes : CanViewCake(authUid, cakes[k]) /\ cakes[k].available = TRUE}

\* (variant: the query has no .eq('available', true))
fetchCakes_anyAvailability ==
    /\ browseCakes' = {k \in DOMAIN cakes : CanViewCake(user, cakes[k])}
    /\ UNCHANGED <<store, user, cake, quantity, deliveryType, deliveryAddress,
                   invalid, uid, formData, navbar, toast, featuredCakes, customerOrders,
                   sellerOrders, dashboard>>

\* BrowseCakes.fetchCakes: from('cakes').select(...).eq('available', true)
fetchCakes ==
    /\ browseCakes' = AvailableCakes(user)
    /\ UNCHANGED <<store, user, cake, quantity, deliveryType, deliveryAddress,
                   invalid, uid, formData, navbar, toast, featuredCakes, customerOrders,
                   sellerOrders, dashboard>>

\* .limit(6)
FeaturedLimit == 6

\* Index.fetchFeaturedCakes: the same query with .limit(6) and no ordering:
\* any FeaturedLimit of the rows, or all of them when there are fewer
fetchFeaturedCakes ==
    /\ \E rows \in SUBSET AvailableCakes(user) :
          /\ \/ rows = AvailableCakes(user)
             \/ Cardinality(rows) = FeaturedLimit
          /\ Cardinality(rows) <= FeaturedLimit
          /\ featuredCakes' = rows
    /\ UNCHANGED <<store, user, cake, quantity, deliveryType, deliveryAddress,
                   invalid, uid, formData, navbar, toast, browseCakes, customerOrders,
                   sellerOrders, dashboard>>

(***************************************************************************)
(* Navbar                                                                  *)
(* navbar.auth is the session the supabase client holds (the id of its     *)
(* user, or NULL), navbar.getSession tells that the getSession() promise   *)
(* of the mount effect is pending; session, user and userRole are the      *)
(* component's state.  navbar.fetches are the calls of fetchUserProfile    *)
(* under way: waiting for their setTimeout, or sent, with the answer the   *)
(* store has given to the session they were sent with.                     *)
(***************************************************************************)
\* the principals who sign in
NavbarUsers == {"uc1", "us1"}

\* from('profiles').select('role').eq('user_id', userId).single() sent with
\* the session authUid, under the policy "Users can view their own profile"
SelectRole(authUid, userId) ==
    LET rows == {p \in profiles : p.user_id = userId /\ p.user_id = authUid}
    IN IF Cardinality(rows) = 1 THEN (CHOOSE p \in rows : TRUE).role ELSE "error"

navbarFrame ==
    UNCHANGED <<store, user, cake, quantity, deliveryType, deliveryAddress,
                invalid, uid, formData, lists>>

\* the callback of onAuthStateChange for a sign-in of userId on the Auth
\* page
SIGNED_IN(userId) ==
    /\ navbar.auth = NULL
    /\ navbar' = [navbar EXCEPT
          !.auth = userId,
          !.session = userId,
          !.user = userId,
          !.fetches = @ \cup {[role |-> NULL, userId |-> userId, phase |-> "setTimeout"]}]
    /\ UNCHANGED toast
    /\ navbarFrame

\* the mount effect's supabase.auth.getSession().then(...)
Navbar_getSession ==
    /\ navbar.getSession = TRUE
    /\ navbar' = [navbar EXCEPT
          !.getSession = FALSE,
          !.session = navbar.auth,
          !.user = navbar.auth,
          !.fetches = IF navbar.auth = NULL THEN @
                      ELSE @ \cup {[role |-> SelectRole(navbar.auth, navbar.auth),
                                    userId |-> navbar.auth,
                                    phase |-> "sent"]}]
    /\ UNCHANGED toast
    /\ navbarFrame

\* the setTimeout of the callback fires: fetchUserProfile(userId) sends its
\* request with the session the client holds by then
setTimeout(userId) ==
    LET waiting == [role |-> NULL, userId |-> userId, phase |-> "setTimeout"]
    IN /\ waiting \in navbar.fetches
       /\ navbar' = [navbar EXCEPT
             !.fetches = (@ \ {waiting})
                 \cup {[role |-> SelectRole(navbar.auth, userId), userId |-> userId,
                        phase |-> "sent"]}]
       /\ UNCHANGED toast
       /\ navbarFrame

\* the answer role to the request that fetchUserProfile(userId) has sent
\* arrives: on an error it is logged, otherwise
\* setUserRole(profile?.role || null)
fetchUserProfile(userId, role) ==
    LET fetch == [role |-> role, userId |-> userId, phase |-> "sent"]
    IN
    /\ fetch \in navbar.fetches
    /\ fetch.phase = "sent"
    /\ navbar' = [navbar EXCEPT
          !.fetches = @ \ {fetch},
          !.userRole = IF fetch.role = "error" THEN @ ELSE fetch.role]
    /\ UNCHANGED toast
    /\ navbarFrame

\* the Sign Out button, shown while user is set: supabase.auth.signOut(),
\* whose SIGNED_OUT event runs the callback with no session, then the
\* setters of the handler
handleSignOut ==
    /\ navbar.user # NULL
    /\ navbar' = [navbar EXCEPT
          !.auth = NULL, !.session = NULL, !.user = NULL, !.userRole = NULL]
    /\ toast' = "Signed out successfully"
    /\ navbarFrame

(***************************************************************************)
(* Specification                                                           *)
(***************************************************************************)
Next ==
    \/ \E cakeId \in 1..MaxCakes : fetchCake(cakeId)
    \/ \E parsed \in QuantityTyped : setQuantity(parsed)
    \/ \E value \in DeliveryTypeOptions : setDeliveryType(value)
    \/ \E value \in AddressTyped : setDeliveryAddress(value)
    \/ SubmitForm
    \/ \E orderId \in 1..MaxOrders, newStatus \in StatusOptions :
          updateOrderStatus(orderId, newStatus)
    \/ \E editingCake \in 0..MaxCakes, price \in Prices, available \in BOOLEAN :
          handleSave(editingCake, price, DefaultPrepTime, available)
    \/ \E cakeId \in 1..MaxCakes : handleDelete(cakeId)
    \/ \E cakeId \in 1..MaxCakes, listedAvailable \in BOOLEAN :
          toggleAvailability(cakeId, listedAvailable)

Spec == Init /\ [][Next]_vars

(***************************************************************************)
(* The catalogue: a seller's cake dialog and list, and the pages that read *)
(* cakes.  Besides the cakes that sellers insert there is one cake of      *)
(* bakery b2, under an id that no insert hands out.                        *)
(***************************************************************************)
OtherCakeId == MaxCakes + 1
CatalogIds == 1..OtherCakeId

InitCatalog ==
    /\ users = InitUsers
    /\ profiles = InitProfiles
    /\ bakeries = InitBakeries
    /\ \E available \in BOOLEAN :
          cakes = (OtherCakeId :> [InitCake("b2") EXCEPT !.available = available])
    /\ orders = <<>>
    /\ nextCakeId = 1
    /\ nextOrderId = 1
    /\ InitLists
    /\ user \in {NULL, "uc1", "us1"}
    /\ cake = NoCake
    /\ quantity = 1
    /\ deliveryType = ""
    /\ deliveryAddress = ""
    /\ invalid = ""
    /\ uid \in {"us1", "uc1"}
    /\ toast = ""

NextCatalog ==
    \/ \E cakeId \in CatalogIds : fetchCake(cakeId)
    \/ fetchCakes
    \/ fetchFeaturedCakes
    \/ \E editingCake \in {0} \cup CatalogIds, priceTyped \in PriceTyped,
          prepTyped \in PrepTyped, available \in BOOLEAN :
          SubmitCakeForm(editingCake, priceTyped, prepTyped, available)
    \/ \E cakeId \in CatalogIds : handleDelete(cakeId)
    \/ \E cakeId \in CatalogIds, listedAvailable \in BOOLEAN :
          toggleAvailability(cakeId, listedAvailable)

SpecCatalog == InitCatalog /\ [][NextCatalog]_vars

(***************************************************************************)
(* Properties                                                              *)
(***************************************************************************)
\* the orders created by a step, and the orders present before and after it
Created == DOMAIN orders' \ DOMAIN orders
Kept == DOMAIN orders' \cap DOMAIN orders

\* C1: every order created by placeOrder has total_amount = the cake's price
\* in the store at the moment of the call * the order's quantity.
C1_TotalIsStorePriceTimesQuantity ==
    [][\A o \in Created :
          /\ orders'[o].cake_id \in DOMAIN cakes
          /\ orders'[o].total_amount =
                 cakes[orders'[o].cake_id].price * orders'[o].quantity]_vars

\* C2: an order's total_amount never changes after creation, whatever status
\* updates and cake price updates follow.
C2_TotalNeverChanges ==
    [][\A o \in Kept : orders'[o].total_amount = orders[o].total_amount]_vars

\* C2 witness: an order whose status was updated, followed by a save of its
\* cake, and whose total is not the cake's present price * quantity.
C2_Witness ==
    \E o \in DOMAIN orders :
        /\ orders[o].status # "pending"
        /\ toast = "Cake updated successfully!"
        /\ orders[o].cake_id \in DOMAIN cakes
        /\ SellerOfBakery(uid, orders[o].bakery_id)
        /\ orders[o].total_amount #
               cakes[orders[o].cake_id].price * orders[o].quantity

\* C3: no order is created for a cake whose availability flag is false (or
\* that is deleted) at the moment placeOrder is called.
C3_NoOrderForUnavailableCake ==
    [][\A o \in Created :
          /\ orders'[o].cake_id \in DOMAIN cakes
          /\ cakes[orders'[o].cake_id].available = TRUE]_vars

\* C4: once an order is completed or cancelled its status never changes again.
C4_TerminalStatusIsFinal ==
    [][\A o \in Kept :
          orders[o].status \in {"completed", "cancelled"}
             => orders'[o].status = orders[o].status]_vars

\* the transitions of the order state machine
Chain == { <<"pending", "confirmed">>, <<"confirmed", "in_progress">>,
           <<"in_progress", "ready">>, <<"ready", "completed">> }
ToCancelled == { <<s, "cancelled">> : s \in {"pending", "confirmed", "in_progress", "ready"} }

\* C5: every status change applied to an order is one step of the chain or a
\* move from a non-terminal status to cancelled.
C5_OnlyStateMachineSteps ==
    [][\A o \in Kept :
          orders'[o].status # orders[o].status
             => <<orders[o].status, orders'[o].status>> \in Chain \cup ToCancelled]_vars

\* C6: when the owning seller requests the next status of the chain, the
\* update succeeds and is persisted.
C6_ChainStepsSucceed ==
    [][\A o \in DOMAIN orders : \A s \in StatusOptions :
          ( /\ updateOrderStatus(o, s)
            /\ SellerOfBakery(uid, orders[o].bakery_id)
            /\ <<orders[o].status, s>> \in Chain )
          => ( /\ toast' = "Order status updated"
               /\ o \in DOMAIN orders'
               /\ orders'[o].status = s )]_vars

\* the user id of the seller who owns a bakery
OwnerUserIds(bakery_id) ==
    { p.user_id : p \in { q \in profiles :
          \E b \in bakeries : b.id = bakery_id /\ b.seller_id = q.id } }

\* C7: an order's status is changed only by a request of the seller who owns
\* the bakery referenced by the order.
C7_OnlyOwningSellerChangesStatus ==
    [][\A o \in Kept :
          orders'[o].status # orders[o].status
             => uid \in OwnerUserIds(orders[o].bakery_id)]_vars

\* C7 witness: a principal who does not own the order's bakery has issued a
\* status update, and the order is as it was placed.
C7_Witness ==
    \E o \in DOMAIN orders :
        /\ uid \notin OwnerUserIds(orders[o].bakery_id)
        /\ toast = "Order status updated"
        /\ orders[o].status = "pending"

\* C8: a status update by a seller who does not own the order's bakery ends
\* in an error outcome and leaves the order's status unchanged.
C8_ForeignSellerGetsError ==
    [][\A o \in DOMAIN orders : \A s \in StatusOptions :
          ( /\ updateOrderStatus(o, s)
            /\ \E p \in profiles : p.user_id = uid /\ p.role = "seller"
            /\ uid \notin OwnerUserIds(orders[o].bakery_id) )
          => ( /\ toast' = "Error updating order"
               /\ orders' = orders )]_vars

\* C9: a submit with delivery type delivery and an empty address is rejected
\* as invalid and creates no order; every persisted delivery order has a
\* non-empty delivery address.
C9_DeliveryNeedsAddress ==
    /\ [](\A o \in DOMAIN orders :
             orders[o].delivery_type = "delivery"
                => orders[o].delivery_address \notin {"", NULL})
    /\ [][( SubmitForm /\ deliveryType = "delivery" /\ deliveryAddress = "" )
             => ( orders' = orders /\ invalid' # "" )]_vars

\* C9 witness: the form was submitted with delivery and an empty address and
\* the address input was reported invalid.
C9_Witness ==
    /\ cake # NoCake
    /\ deliveryType = "delivery"
    /\ deliveryAddress = ""
    /\ invalid = "deliveryAddress"

\* C10: a submit with a quantity below 1 is rejected as invalid before any
\* write; every persisted order has quantity >= 1.
C10_QuantityAtLeastOne ==
    /\ [](\A o \in DOMAIN orders : orders[o].quantity >= 1)
    /\ [][( SubmitForm /\ quantity < 1 )
             => ( orders' = orders /\ invalid' = "quantity" )]_vars

\* C10 witness: a negative number was typed into the quantity field, the
\* form was submitted and the quantity input was reported invalid.
C10_Witness ==
    /\ cake # NoCake
    /\ quantity < 0
    /\ invalid = "quantity"

(***************************************************************************)
(* The order lists: customers order cakes of two bakeries while the store  *)
(* holds three earlier orders, under ids that no insert hands out and      *)
(* that do not follow the order of creation.                               *)
(***************************************************************************)
EarlierOrder(customer_id, cake_id, bakery_id, created_at) ==
    [ quantity |-> 1, bakery_id |-> bakery_id, customer_id |-> customer_id,
      cake_id |-> cake_id, delivery_type |-> "pickup", status |-> "pending",
      payment_status |-> "pending", total_amount |-> 2500, delivery_address |-> NULL,
      created_at |-> created_at ]

InitLists2 ==
    /\ users = InitUsers
    /\ profiles = InitProfiles
    /\ bakeries = InitBakeries
    /\ cakes = <<InitCake("b1"), InitCake("b2")>>
    /\ orders = ( (MaxOrders + 1) :> EarlierOrder("c1", 1, "b1", -1) )
             @@ ( (MaxOrders + 2) :> EarlierOrder("c1", 2, "b2", 0) )
             @@ ( (MaxOrders + 3) :> EarlierOrder("c2", 1, "b1", -2) )
    /\ nextCakeId = 3
    /\ nextOrderId = 1
    /\ InitLists
    /\ user \in {NULL, "uc1", "uc2"}
    /\ cake = NoCake
    /\ quantity = 1
    /\ deliveryType = ""
    /\ deliveryAddress = ""
    /\ invalid = ""
    /\ uid \in {"us1", "us2", "uc1"}
    /\ toast = ""

NextLists ==
    \/ \E cakeId \in 1..2 : fetchCake(cakeId)
    \/ setDeliveryType("pickup")
    \/ SubmitForm
    \/ \E orderId \in 1..(MaxOrders + 3), newStatus \in {"confirmed", "cancelled"} :
          updateOrderStatus(orderId, newStatus)
    \/ CustomerOrders_fetchOrders
    \/ SellerOrders_fetchOrders

SpecLists == InitLists2 /\ [][NextLists]_vars

\* list holds each of the orders ids once, the later created before the
\* earlier, as the store is after the step
NewestFirst(list, ids) ==
    /\ {list[i] : i \in DOMAIN list} = ids
    /\ Len(list) = Cardinality(ids)
    /\ \A i, j \in DOMAIN list :
          i < j => orders'[list[i]].created_at > orders'[list[j]].created_at

InitDashboards ==
    /\ users = InitUsers
    /\ profiles = InitProfiles
    /\ bakeries = {b \in InitBakeries : b.seller_id = "s2"}
    /\ cakes = <<>>
    /\ orders = <<>>
    /\ nextCakeId = 1
    /\ nextOrderId = 1
    /\ InitLists
    /\ user = NULL
    /\ cake = NoCake
    /\ quantity = 1
    /\ deliveryType = ""
    /\ deliveryAddress = ""
    /\ invalid = ""
    /\ uid \in {"us1", "us2", "uc1"}
    /\ toast = ""

NextDashboards ==
    \/ \E d \in 1..Dashboards : SellerDashboard_fetchBakeryAndStats(d)
    \/ \E d \in 1..Dashboards, name \in BakeryNames : handleSaveBakery(d, name)
    \/ \E editingCake \in 0..MaxCakes, price \in Prices, available \in BOOLEAN :
          SubmitCakeForm(editingCake, <<price>>, <<DefaultPrepTime>>, available)
    \/ \E cakeId \in 1..MaxCakes : handleDelete(cakeId)

SpecDashboards == InitDashboards /\ [][NextDashboards]_vars

\* C16: whatever handleSaveBakery calls a seller makes, from one dashboard
\* or from two that were both loaded before a bakery existed, the seller
\* owns at most one bakery.
C16_AtMostOneBakeryPerSeller ==
    \A p \in profiles : Cardinality({b \in bakeries : b.seller_id = p.id}) <= 1

(***************************************************************************)
(* Signups: new principals register, with and without role and display     *)
(* name, next to the accounts every specification starts with.             *)
(***************************************************************************)
NextSignup ==
    \E id \in NewUserIds, email \in Emails, role \in MetaRoles,
       display_name \in MetaNames :
        on_auth_user_created(id, email, role, display_name)

SpecSignup == Init /\ [][NextSignup]_vars

(***************************************************************************)
(* Profiles: principals sign up, and the signed-in principal sends inserts *)
(* and updates on profiles.                                                *)
(***************************************************************************)
NextProfiles ==
    \/ NextSignup
    \/ \E user_id \in UserIds \cup NewUserIds, role \in user_role :
          profiles_Insert(user_id, role)
    \/ \E user_id \in UserIds \cup NewUserIds, role \in user_role :
          profiles_Update(user_id, role)

SpecProfiles == Init /\ [][NextProfiles]_vars

(***************************************************************************)
(* Bakeries: the dashboards of the sellers, and inserts and updates on     *)
(* bakeries sent by a seller without a bakery, a seller with one and a     *)
(* customer.                                                               *)
(***************************************************************************)
NextBakeries ==
    \/ \E d \in 1..Dashboards : SellerDashboard_fetchBakeryAndStats(d)
    \/ \E d \in 1..Dashboards, name \in BakeryNames : handleSaveBakery(d, name)
    \/ \E p \in profiles, name \in BakeryNames : bakeries_Insert(p.id, name)
    \/ \E id \in BakeryIds, name \in BakeryNames : bakeries_Update(id, name)

SpecBakeries == InitDashboards /\ [][NextBakeries]_vars

(***************************************************************************)
(* The allergens of a cake: seller us1 types into the allergens input of   *)
(* the dialog, opens the cake of bakery b1 for editing, and saves.         *)
(***************************************************************************)
Texts == UNION { [1..n -> Chars] : n \in 0..MaxLen }

InitAllergens ==
    /\ users = InitUsers
    /\ profiles = InitProfiles
    /\ bakeries = InitBakeries
    /\ cakes = (OtherCakeId :> InitCake("b1"))
    /\ orders = <<>>
    /\ nextCakeId = OtherCakeId + 1
    /\ nextOrderId = 1
    /\ InitLists
    /\ user = NULL
    /\ cake = NoCake
    /\ quantity = 1
    /\ deliveryType = ""
    /\ deliveryAddress = ""
    /\ invalid = ""
    /\ uid = "us1"
    /\ toast = ""

NextAllergens ==
    \/ \E text \in Texts : setAllergens(text)
    \/ handleEdit(OtherCakeId)
    \/ \E available \in BOOLEAN :
          SubmitCakeForm(OtherCakeId, <<2500>>, <<DefaultPrepTime>>, available)

SpecAllergens == InitAllergens /\ [][NextAllergens]_vars

(***************************************************************************)
(* The dashboard's stats: customers order cakes of two bakeries, the       *)
(* sellers confirm and cancel orders and open the dashboard, while the     *)
(* store holds three earlier orders.                                       *)
(***************************************************************************)
NextStats ==
    \/ \E cakeId \in 1..2 : fetchCake(cakeId)
    \/ \E parsed \in {<<1>>, <<2>>} : setQuantity(parsed)
    \/ setDeliveryType("pickup")
    \/ SubmitForm
    \/ \E orderId \in 1..(MaxOrders + 3), newStatus \in {"confirmed", "cancelled"} :
          updateOrderStatus(orderId, newStatus)
    \/ SellerDashboard_fetchBakeryAndStats(1)

SpecStats == InitLists2 /\ [][NextStats]_vars

(***************************************************************************)
(* The navigation bar: the page is loaded with or without a session, and   *)
(* principals sign in and out.                                             *)
(***************************************************************************)
InitNavbar ==
    /\ users = InitUsers
    /\ profiles = InitProfiles
    /\ bakeries = InitBakeries
    /\ cakes = <<>>
    /\ orders = <<>>
    /\ nextCakeId = 1
    /\ nextOrderId = 1
    /\ browseCakes = {}
    /\ featuredCakes = {}
    /\ customerOrders = <<>>
    /\ sellerOrders = <<>>
    /\ dashboard = [d \in 1..Dashboards |->
                      [loading |-> TRUE, bakery |-> NoRow,
                       stats |-> [totalCakes |-> 0, totalOrders |-> 0,
                                  pendingOrders |-> 0, totalRevenue |-> 0]]]
    /\ formData = <<>>
    /\ \E auth \in {NULL} \cup NavbarUsers :
          navbar = [user |-> NULL, auth |-> auth, getSession |-> TRUE,
                    session |-> NULL, userRole |-> NULL, fetches |-> {}]
    /\ user = NULL
    /\ cake = NoCake
    /\ quantity = 1
    /\ deliveryType = ""
    /\ deliveryAddress = ""
    /\ invalid = ""
    /\ uid = "us1"
    /\ toast = ""

NextNavbar ==
    \/ \E userId \in NavbarUsers : SIGNED_IN(userId)
    \/ Navbar_getSession
    \/ \E userId \in NavbarUsers : setTimeout(userId)
    \/ \E userId \in NavbarUsers, role \in user_role \cup {"error"} :
          fetchUserProfile(userId, role)
    \/ handleSignOut

SpecNavbar == InitNavbar /\ [][NextNavbar]_vars

\* C11: every order created has status pending and payment_status pending,
\* its customer_id is the profile of the caller and its bakery_id is the
\* bakery of the ordered cake.
C11_NewOrderFields ==
    [][\A o \in Created :
          /\ orders'[o].status = "pending"
          /\ orders'[o].payment_status = "pending"
          /\ user # NULL
          /\ orders'[o].customer_id = ProfileOf(user).id
          /\ orders'[o].cake_id \in DOMAIN cakes
          /\ orders'[o].bakery_id = cakes[orders'[o].cake_id].bakery_id]_vars

\* C11 witness: the order has just been placed and is still as created.
C11_Witness ==
    /\ toast = "Order placed successfully!"
    /\ \E o \in DOMAIN orders :
          /\ orders[o].status = "pending"
          /\ orders[o].customer_id = ProfileOf(user).id

\* C12: every pickup order is stored with a null delivery address, also
\* when an address was typed while delivery was selected.
C12_PickupHasNullAddress ==
    \A o \in DOMAIN orders :
        orders[o].delivery_type = "pickup" => orders[o].delivery_address = NULL

\* C12 witness: a pickup order is stored, without an address.
C12_Witness ==
    \E o \in DOMAIN orders :
        /\ orders[o].delivery_type = "pickup"
        /\ orders[o].delivery_address = NULL

\* C13: the list of BrowseCakes and the list of Index hold, when they are
\* fetched, only cakes that are available in the store at that moment.
C13_ListsHoldAvailableCakes ==
    [][ /\ fetchCakes =>
             \A k \in browseCakes' : k \in DOMAIN cakes /\ cakes[k].available = TRUE
        /\ fetchFeaturedCakes =>
             \A k \in featuredCakes' : k \in DOMAIN cakes /\ cakes[k].available = TRUE
      ]_vars

\* C13 witness: the BrowseCakes list shows the available cakes, and the
\* store holds an unavailable cake, which the list leaves out.
C13_Witness ==
    /\ browseCakes # {}
    /\ browseCakes = {k \in DOMAIN cakes : cakes[k].available = TRUE}
    /\ \E k \in DOMAIN cakes : cakes[k].available = FALSE

\* C14: fetchCake for the id of an existing but unavailable cake ends as it
\* does for an id that no cake has: no cake on the page, "Cake not found".
C14_UnavailableLikeAbsent ==
    [][\A cakeId \in CatalogIds :
          ( /\ fetchCake(cakeId)
            /\ \/ cakeId \notin DOMAIN cakes
               \/ cakes[cakeId].available = FALSE )
          => ( /\ cake' = NoCake
               /\ toast' = "Cake not found"
               /\ quantity' = 1 /\ deliveryType' = "" /\ deliveryAddress' = ""
               /\ store' = store )]_vars

\* C14 witness: every cake of the store is unavailable, one of them is the
\* page user's own, and the page has just shown "Cake not found".
C14_Witness ==
    /\ toast = "Cake not found"
    /\ cake = NoCake
    /\ \A k \in CatalogIds : k \in DOMAIN cakes /\ cakes[k].available = FALSE
    /\ \E k \in DOMAIN cakes : user \in OwnerUserIds(cakes[k].bakery_id)

\* C17: a cake is created, updated, deleted or has its availability changed
\* only by a request of the seller who owns the cake's bakery.
C17_OnlyOwningSellerWritesCakes ==
    [][\A k \in DOMAIN cakes \cup DOMAIN cakes' :
          /\ ( k \in DOMAIN cakes /\ (k \notin DOMAIN cakes' \/ cakes'[k] # cakes[k]) )
                => uid \in OwnerUserIds(cakes[k].bakery_id)
          /\ ( k \in DOMAIN cakes' /\ (k \notin DOMAIN cakes \/ cakes'[k] # cakes[k]) )
                => uid \in OwnerUserIds(cakes'[k].bakery_id) ]_vars

\* C17 witness: a seller has deleted a cake of a bakery of another seller,
\* was told it is deleted, and the cake is in the store.
C17_Witness ==
    /\ toast = "Cake deleted successfully!"
    /\ uid = "us1"
    /\ OtherCakeId \in DOMAIN cakes
    /\ uid \notin OwnerUserIds(cakes[OtherCakeId].bakery_id)

\* C18: every cake in the store has a price above zero and a preparation
\* time that is not negative.
C18_PriceAndPrepTimeValid ==
    \A k \in DOMAIN cakes :
        /\ cakes[k].price > 0
        /\ cakes[k].preparation_time_hours >= 0

C20_ProfileProvisioned ==
    \A u \in users :
        LET own == {p \in profiles : p.user_id = u.id}
        IN /\ Cardinality(own) = 1
           /\ \A p \in own :
                 /\ p.role = (IF u.role = NULL THEN "customer" ELSE u.role)
                 /\ p.display_name =
                       (IF u.display_name = NULL THEN u.email ELSE u.display_name)
                 /\ p.email = u.email

\* C20 witness: one principal has signed up as a seller with a display
\* name, another without role and name.
C20_Witness ==
    /\ \E u \in users :
          u.id \in NewUserIds /\ u.role = "seller" /\ u.display_name # NULL
    /\ \E u \in users :
          u.id \in NewUserIds /\ u.role = NULL /\ u.display_name = NULL

\* C21: every principal has exactly one profile, and no two profiles have
\* the same user_id.
C21_OneProfilePerPrincipal ==
    /\ \A u \in users : \E p \in profiles : p.user_id = u.id
    /\ \A p, q \in profiles : p.user_id = q.user_id => p = q

\* C21 witness: the two new principals have signed up and the role of a
\* profile is no longer the one its principal signed up with, so requests
\* on profiles have been served.
C21_Witness ==
    /\ \A id \in NewUserIds : \E u \in users : u.id = id
    /\ \E u \in users, p \in profiles :
          p.user_id = u.id /\ u.role # NULL /\ p.role # u.role

\* C22: the role of a profile never changes.
C22_RoleNeverChanges ==
    [][\A p \in profiles, q \in profiles' : p.id = q.id => p.role = q.role]_vars

\* the principals who own bakery row b as sellers
SellerUserIds(b) ==
    {p.user_id : p \in {q \in profiles : q.id = b.seller_id /\ q.role = "seller"}}

\* C23: a bakery row is created or changed only by a request of the
\* seller-role principal who owns it.
C23_OnlyOwningSellerWritesBakeries ==
    [][\A b \in bakeries' : b \notin bakeries => uid \in SellerUserIds(b)]_vars

\* C23 witness: a customer, or a seller who owns none of the bakeries, is
\* signed in next to a bakery of a seller, which still has its first name.
C23_Witness ==
    /\ \A b \in bakeries : uid \notin SellerUserIds(b)
    /\ bakeries = {b \in InitBakeries : b.seller_id = "s2"}
    /\ \E d \in 1..Dashboards : dashboard[d].loading = FALSE \/ toast = "Access denied"

\* the characters of text that are neither comma nor blank, in order
Letters(text) ==
    LET letter(c) == c \notin {",", " "}
    IN SelectSeq(text, letter)

\* the labels of list, one after the other
RECURSIVE Flat(_)
Flat(list) == IF list = <<>> THEN <<>> ELSE list[1] \o Flat(Tail(list))

\* the pieces of text between its commas that hold a letter
LetteredPieces(text) ==
    Cardinality({ c \in {0} \cup {i \in DOMAIN text : text[i] = ","} :
        \E i \in DOMAIN text :
            /\ i > c
            /\ text[i] \notin {",", " "}
            /\ \A j \in (c + 1)..i : text[j] # "," })

\* C24: no stored allergen label is empty, starts or ends with a blank or
\* holds a comma; a save stores one label for each piece of the text
\* between commas that is not blank, with the letters of the text in their
\* order.
C24_AllergensSplitAndTrimmed ==
    /\ [](\A k \in DOMAIN cakes : \A i \in DOMAIN cakes[k].allergens :
             LET label == cakes[k].allergens[i]
             IN /\ label # <<>>
                /\ label[1] # " "
                /\ label[Len(label)] # " "
                /\ \A j \in DOMAIN label : label[j] # ",")
    /\ [][( toast' = "Cake updated successfully!" /\ cakes' # cakes )
             => /\ Len(cakes'[OtherCakeId].allergens) = LetteredPieces(formData)
                /\ Letters(Flat(cakes'[OtherCakeId].allergens)) = Letters(formData)]_vars

\* C24 witness: a save has stored a list of two labels.
C24_Witness ==
    /\ toast = "Cake updated successfully!"
    /\ \E k \in DOMAIN cakes :
          /\ Len(cakes[k].allergens) = 2
          /\ cakes[k].allergens[1] = cakes[k].allergens[2]

\* C30: a save with the text that handleEdit has put into the allergens
\* input stores the allergen list that was stored.
C30_EditSaveKeepsAllergens ==
    [][\A available \in BOOLEAN :
          ( /\ OtherCakeId \in DOMAIN cakes
            /\ formData = join(cakes[OtherCakeId].allergens)
            /\ SubmitCakeForm(OtherCakeId, <<2500>>, <<DefaultPrepTime>>, available) )
          => cakes'[OtherCakeId].allergens = cakes[OtherCakeId].allergens]_vars

\* C30 witness: the cake was saved and has two labels.
C30_Witness ==
    /\ toast = "Cake updated successfully!"
    /\ formData = <<>>
    /\ \E k \in DOMAIN cakes : Len(cakes[k].allergens) >= 2

\* C25: of two status updates by the owning seller that are in flight
\* together, the store applies one write after the other (the request reads
\* nothing before it writes): each write is applied whatever status the
\* other one has left, so that the order ends with the status of the write
\* that arrived last, and never with a status that neither call requested.
C25_LastWriteWins ==
    [][\A o \in DOMAIN orders : \A s \in StatusOptions :
          ( /\ updateOrderStatus(o, s)
            /\ SellerOfBakery(uid, orders[o].bakery_id) )
          => ( /\ o \in DOMAIN orders'
               /\ orders'[o].status = s )]_vars

\* C26: a status update leaves every order in the store, changes no field
\* but status of the order it names and nothing of any other order, and
\* changes no cake, bakery or profile.  (Rows carry created_at as their only
\* timestamp; updated_at, which the trigger sets, is not a field of the
\* rows here.)
C26_StatusUpdateChangesOnlyStatus ==
    [][\A orderId \in DOMAIN orders : \A newStatus \in {"confirmed", "cancelled"} :
          updateOrderStatus(orderId, newStatus)
             => /\ DOMAIN orders' = DOMAIN orders
                /\ \A k \in DOMAIN orders :
                      /\ orders'[k] = [orders[k] EXCEPT !.status = orders'[k].status]
                      /\ k # orderId => orders'[k] = orders[k]
                /\ UNCHANGED <<cakes, bakeries, profiles>>]_vars

\* C26 witness: the owning seller has cancelled one of the orders of two
\* customers, which has the amount, cake and payment status it was placed
\* with.
C26_Witness ==
    /\ toast = "Order status updated"
    /\ uid = "us1"
    /\ (MaxOrders + 1) \in DOMAIN orders
    /\ orders[MaxOrders + 1] =
          [EarlierOrder("c1", 1, "b1", -1) EXCEPT !.status = "cancelled"]
    /\ orders[MaxOrders + 3].status = "pending"

\* C28: every order references a cake, a bakery and a customer profile that
\* are in the store; a handleDelete that deletes a cake removes the orders
\* that reference it, whatever their status, and no other order.
C28_OrdersReferenceExistingRows ==
    /\ [](\A o \in DOMAIN orders :
             /\ orders[o].cake_id \in DOMAIN cakes
             /\ \E b \in bakeries : b.id = orders[o].bakery_id
             /\ \E p \in profiles : p.id = orders[o].customer_id)
    /\ [][\A cakeId \in DOMAIN cakes :
             ( handleDelete(cakeId) /\ cakeId \notin DOMAIN cakes' )
             => DOMAIN orders' =
                  {o \in DOMAIN orders : orders[o].cake_id # cakeId}]_vars

\* C28 witness: an order was placed, and the cake and the order are gone
\* after the owning seller's handleDelete.
C28_Witness ==
    /\ toast = "Cake deleted successfully!"
    /\ uid = "us1"
    /\ nextOrderId > 1
    /\ DOMAIN cakes = {}
    /\ DOMAIN orders = {}

\* C29: the stats a seller's dashboard shows after fetchBakeryAndStats are
\* taken over all orders of the seller's bakery: totalOrders is their
\* number, pendingOrders the number of those with status pending (at most
\* totalOrders), totalRevenue the sum of their total_amount, cancelled
\* orders included.
C29_DashboardStats ==
    [][( SellerDashboard_fetchBakeryAndStats(1) /\ bakeryId # NULL )
          => LET mine == {o \in DOMAIN orders : orders[o].bakery_id = bakeryId}
                 stats == dashboard'[1].stats
             IN /\ stats.totalOrders = Cardinality(mine)
                /\ stats.pendingOrders =
                      Cardinality({o \in mine : orders[o].status = "pending"})
                /\ stats.pendingOrders <= stats.totalOrders
                /\ stats.totalRevenue = reduce(mine)]_vars

\* C29 witness: seller us1 sees three orders, one of them pending and one
\* cancelled, and the revenue of the three.
C29_Witness ==
    /\ uid = "us1"
    /\ dashboard[1].stats.totalOrders = 3
    /\ dashboard[1].stats.pendingOrders = 1
    /\ \E o \in DOMAIN orders :
          orders[o].bakery_id = "b1" /\ orders[o].status = "cancelled"
    /\ dashboard[1].stats.totalRevenue =
          reduce({o \in DOMAIN orders : orders[o].bakery_id = "b1"})
    /\ dashboard[1].stats.totalRevenue > 3 * 2500

\* C27: the userRole of the navigation bar is the role of the user who is
\* signed in: it is null while no user is signed in, whether or not an
\* answer to fetchUserProfile has still come in, and it is never the role
\* fetched for a session that has ended or was replaced.
C27_UserRoleOfSignedInUser ==
    /\ navbar.user = NULL => navbar.userRole = NULL
    /\ navbar.userRole # NULL =>
          navbar.userRole = SelectRole(navbar.user, navbar.user)

====
